---- MODULE Spec2Model ----
(***************************************************************************)
(* The two brainstem segmentation drivers of miac-research/dl-brainstem:   *)
(*   src/mdgru/pipeline_mdgru.py   and   src/nnunet/pipeline_nnunet.py     *)
(* A run is a command-line invocation: the __main__ block followed by      *)
(* pipeline_mdgru / pipeline_nnunet.  Runs share one file system.          *)
(*                                                                         *)
(* File names are sequences of tokens ("img", "_0000", ".nii", ".gz"), a   *)
(* path is a sequence of names, the file system maps the existing paths to *)
(* their contents.  Voxel sizes are in thousandths of a millimetre and     *)
(* probabilities in hundredths.                                            *)
(***************************************************************************)
EXTENDS Integers, Sequences, FiniteSets, TLC

VARIABLES
    pc,     \* pc[p]: the statement run p executes next
    args,   \* args[p]: the parsed command line of run p (argparse namespace)
    loc,    \* loc[p]: the local variables of __main__ and pipeline_* of run p
    fs,     \* the file system: existing path -> content
    fs0,    \* the file system when the runs were started (never changes)
    log     \* log[p]: the steps run p has begun: "mkdir", "predict", inverse mapping

vars == <<pc, args, loc, fs, fs0, log>>

----------------------------------------------------------------------------
(* Bounds of the model *)

\* number of voxels (sample points) carried by a label or probability volume
NVox == 1

\* the two runs of the model; the second one is only started by SpecConc
Procs == {1, 2}

----------------------------------------------------------------------------
(* Names and paths: os.path and the regular expressions of the drivers *)

NiiGz == <<".nii", ".gz">>

EndsWith(s, t) ==
    /\ Len(s) >= Len(t)
    /\ SubSeq(s, Len(s) - Len(t) + 1, Len(s)) = t

DropLast(s, n) == SubSeq(s, 1, Len(s) - n)

\* does '\.nii(\.gz)?$' match the name
MatchesNii(name) == EndsWith(name, NiiGz) \/ EndsWith(name, <<".nii">>)

\* re.sub('\.nii(\.gz)?$', repl, name)
SubNii(name, repl) ==
    IF EndsWith(name, NiiGz) THEN DropLast(name, 2) \o repl
    ELSE IF EndsWith(name, <<".nii">>) THEN DropLast(name, 1) \o repl
    ELSE name

basename(path) == path[Len(path)]

dirname(path) == DropLast(path, 1)

join(dir, name) == Append(dir, name)

\* the regular expression is anchored at the end of the path string, so it
\* rewrites the last component only
SubNiiPath(path, repl) == join(dirname(path), SubNii(basename(path), repl))

IsPrefix(d, path) == Len(d) <= Len(path) /\ SubSeq(path, 1, Len(d)) = d

----------------------------------------------------------------------------
(* The file system: os.path.exists, shutil.rmtree, Path.mkdir, shutil.copy2 *)

DirEntry == [kind |-> "dir"]

\* a file that a failed write left truncated
Partial == [kind |-> "partial"]

exists(f, path) == path \in DOMAIN f

IsDir(f, path) == exists(f, path) /\ f[path].kind = "dir"

IsFile(f, path) == exists(f, path) /\ f[path].kind # "dir"

\* the path a write to `path` creates or replaces; a write needs the parent
CanWrite(f, path) == Len(path) > 1 /\ IsDir(f, dirname(path)) /\ ~IsDir(f, path)

Put(f, path, content) == (path :> content) @@ f

\* shutil.rmtree(d): d and everything below it
rmtree(f, d) == [q \in {r \in DOMAIN f : ~IsPrefix(d, r)} |-> f[q]]

\* Path(d).mkdir(parents=True): d and its missing ancestors
mkdir(f, d) ==
    [q \in DOMAIN f \cup {SubSeq(d, 1, n) : n \in 1..Len(d)} |->
        IF q \in DOMAIN f THEN f[q] ELSE DirEntry]

----------------------------------------------------------------------------
(* Image volumes: orientation, header, voxel sizes, payload *)

\* an orientation: voxel axis i runs along world axis perm[i] (1 = left to
\* right, 2 = posterior to anterior, 3 = inferior to superior), towards the
\* positive end when flip[i] = 1 and the negative end when flip[i] = -1
Perms == {q \in [1..3 -> 1..3] : \A i, j \in 1..3 : i # j => q[i] # q[j]}

Orients == [perm : Perms, flip : [1..3 -> {1, -1}]]

Orient(q, s) == [perm |-> q, flip |-> s]

\* nib.aff2axcodes with the default labels
AxLabel(w, s) ==
    IF w = 1 THEN (IF s = 1 THEN "R" ELSE "L")
    ELSE IF w = 2 THEN (IF s = 1 THEN "A" ELSE "P")
    ELSE (IF s = 1 THEN "S" ELSE "I")

aff2axcodes(o) == [i \in 1..3 |-> AxLabel(o.perm[i], o.flip[i])]

RAS == Orient(<<1, 2, 3>>, <<1, 1, 1>>)

LAS == Orient(<<1, 2, 3>>, <<-1, 1, 1>>)


\* NIfTI transform codes
CodeUnknown == 0

CodeScanner == 1

CodeAligned == 2

\* the default size of the input volume along each voxel axis
InSize == <<3, 4, 5>>

\* payloads: the T1 intensities (resamp counts the interpolations applied),
\* a label per voxel, a four-channel probability volume, one channel of it
T1Data(n) == [type |-> "t1", resamp |-> n]

LabelData(v) == [type |-> "labels", vals |-> v]

ProbData(c) == [type |-> "prob", ch |-> c]

ChannelData(v) == [type |-> "channel", vals |-> v]

Image(qf, qcode, sf, scode, zooms, size, data) ==
    [kind |-> "img", qf |-> qf, qcode |-> qcode, sf |-> sf, scode |-> scode,
     zooms |-> zooms, size |-> size, data |-> data]

IsImage(f, path) == exists(f, path) /\ f[path].kind = "img"

\* nibabel's image.affine (Nifti1Header.get_best_affine): the sform when it
\* is coded, else the qform when it is coded, else the x-flipped base affine
affine(img) ==
    IF img.scode > CodeUnknown THEN img.sf
    ELSE IF img.qcode > CodeUnknown THEN img.qf
    ELSE LAS

\* the content qfrom_2_sform saves: the sform becomes the qform, both coded
\* "scanner"
qfrom_2_sform(img) ==
    [img EXCEPT !.sf = img.qf, !.scode = CodeScanner, !.qcode = CodeScanner]

\* the voxel axis that runs along world axis k
AxisOf(o, k) == CHOOSE i \in 1..3 : o.perm[i] = k

\* the flip applied to voxel axis i so that it runs towards the positive end
FlipTo(s) == s * s

\* nib.as_closest_canonical: output axis k is the input axis running along
\* world axis k, flipped when it ran towards the negative end; the new affine
\* is stored as an "aligned" sform and the qform is left uncoded
as_closest_canonical(img) ==
    LET o == affine(img)
        n == Orient([k \in 1..3 |-> o.perm[AxisOf(o, k)]],
                    [k \in 1..3 |-> FlipTo(o.flip[AxisOf(o, k)])])
    IN  [img EXCEPT !.sf = n, !.scode = CodeAligned, !.qcode = CodeUnknown,
                    !.zooms = [k \in 1..3 |-> img.zooms[AxisOf(o, k)]],
                    !.size = [k \in 1..3 |-> img.size[AxisOf(o, k)]]]

\* the image the orientation branch saves (lines 164-168 / 122-126)
Reoriented(img) ==
    LET c == as_closest_canonical(img)
    IN  [c EXCEPT !.qf = c.sf, !.qcode = CodeAligned]

\* variant: only (R,A,S) is accepted
OrientationAccepted_rasOnly(axcodes) == axcodes = <<"R", "A", "S">>

\* the orientation test of the drivers
OrientationAccepted(axcodes) ==
    axcodes = <<"R", "A", "S">> \/ axcodes = <<"L", "A", "S">>

\* the resolution test of pipeline_mdgru: any(zooms < 0.795) or any(zooms > 1.205)
ZoomLow == 795

ZoomHigh == 1205

\* variant: the two ends of the band count as outside
OutOfRange_openBand(zooms) ==
    \/ \E i \in 1..3 : zooms[i] <= ZoomLow
    \/ \E i \in 1..3 : zooms[i] >= ZoomHigh

OutOfRange(zooms) ==
    \/ \E i \in 1..3 : zooms[i] < ZoomLow
    \/ \E i \in 1..3 : zooms[i] > ZoomHigh

\* the grid SimpleITK reads from a file: direction, spacing, size
ItkOrient(img) == IF img.qcode > CodeUnknown THEN img.qf ELSE img.sf

Grid(img) == [orient |-> ItkOrient(img), zooms |-> img.zooms, size |-> img.size]

\* the header SimpleITK writes for a grid
ItkImage(g, data) ==
    Image(g.orient, CodeScanner, g.orient, CodeScanner, g.zooms, g.size, data)

\* int(np.round(n / d)) for n >= 0, d > 0: halves go to the even neighbour
RoundHalfEven(n, d) ==
    LET q == n \div d
        r == n % d
    IN  IF 2 * r < d THEN q
        ELSE IF 2 * r > d THEN q + 1
        ELSE IF q % 2 = 0 THEN q ELSE q + 1

OutSpacing == <<1000, 1000, 1000>>

\* change_spacing(image, image, [1, 1, 1], BSpline): the file it writes
change_spacing(img) ==
    LET g == Grid(img)
        out == [orient |-> g.orient,
                zooms |-> OutSpacing,
                size |-> [i \in 1..3 |->
                             RoundHalfEven(g.size[i] * g.zooms[i], OutSpacing[i])]]
    IN  ItkImage(out, T1Data(img.data.resamp + 1))


----------------------------------------------------------------------------
(* Resampling onto a reference grid and thresholding *)

\* values a B-spline interpolation can put at a voxel, in hundredths: just
\* below the threshold and on it
ProbVals == {49, 50}

\* the decision threshold 0.5 of lines 218 and 220
Threshold == 50

\* variant: a probability of exactly 0.5 does not count
Reaches_strict(x) == x > Threshold

Reaches(x) == x >= Threshold

\* one pass of the loop body, lines 217-220: the first class builds the array
\* as (arr >= 0.5) * iL, the later ones overwrite where arr >= 0.5
ThresholdStep(arrL, arr, iL) ==
    IF iL = 1
    THEN [v \in 1..NVox |-> IF Reaches(arr[v]) THEN iL ELSE 0]
    ELSE [v \in 1..NVox |-> IF Reaches(arr[v]) THEN iL ELSE arrL[v]]

\* resample(..., interpolator=sitkBSpline): the values on the reference grid
\* are interpolated, any value can result
ResampledChannels == [1..NVox -> ProbVals]

\* resample(..., interpolator=sitkNearestNeighbor): every output voxel takes
\* the value of a source voxel, or the default value 0 outside the source
ResampledLabels(vals) ==
    [1..NVox -> {vals[v] : v \in 1..NVox} \cup {0}]

----------------------------------------------------------------------------
(* Names the drivers derive *)

\* variant: the modality index is put behind the extension
InsertModality_afterExtension(name) == name \o <<"_0000">>

\* re.sub('(\.nii(\.gz)?)$', '_0000\\1', name)
InsertModality(name) ==
    IF EndsWith(name, NiiGz) THEN DropLast(name, 2) \o <<"_0000">> \o NiiGz
    ELSE IF EndsWith(name, <<".nii">>) THEN DropLast(name, 1) \o <<"_0000", ".nii">>
    ELSE name

\* re.sub('_0000(\.nii(\.gz)?)$', '.nii.gz', name)
RemoveModality(name) ==
    IF EndsWith(name, <<"_0000">> \o NiiGz) THEN DropLast(name, 3) \o NiiGz
    ELSE IF EndsWith(name, <<"_0000", ".nii">>) THEN DropLast(name, 2) \o NiiGz
    ELSE name

\* variant: both drivers append the random string
DirTempOf_random(driver, mask, strRand) == SubNiiPath(mask, <<"_temp-", strRand>>)

\* dirTemp, line 141 (mdgru) and lines 95-96 (nnunet, with the random string)
DirTempOf(driver, mask, strRand) ==
    IF driver = "mdgru"
    THEN SubNiiPath(mask, <<"_temp">>)
    ELSE SubNiiPath(mask, <<"_temp-", strRand>>)

\* the workspace copy of the input, line 149 (mdgru) and lines 106-107 (nnunet)
WorkCopy(driver, dirTemp, t1) ==
    IF driver = "mdgru"
    THEN join(dirTemp, basename(t1))
    ELSE join(dirTemp, InsertModality(basename(t1)))

\* the label map the predictor is expected to leave, line 125 and line 80
LabelmapOf(driver, t1) ==
    IF driver = "mdgru"
    THEN join(dirname(t1), <<"mdgru-labels">> \o NiiGz)
    ELSE join(dirname(t1), RemoveModality(basename(t1)))

\* the probability volume of MD-GRU, line 126
ProbdistOf(t1) == join(dirname(t1), <<"mdgru-probdist">> \o NiiGz)

RECURSIVE ReplaceNiiGz(_, _)
\* name.replace('.nii.gz', tok + '.nii.gz'): every occurrence
ReplaceNiiGz(name, tok) ==
    IF Len(name) < 2 THEN name
    ELSE IF SubSeq(name, 1, 2) = NiiGz
         THEN <<tok>> \o NiiGz \o ReplaceNiiGz(SubSeq(name, 3, Len(name)), tok)
         ELSE <<Head(name)>> \o ReplaceNiiGz(Tail(name), tok)

ChannelTok(iL) == <<"_1", "_2", "_3">>[iL]

\* probdistT, line 210: str.replace acts on the whole path string
ProbdistT(probdist, iL) ==
    [i \in 1..Len(probdist) |-> ReplaceNiiGz(probdist[i], ChannelTok(iL))]

\* isSuffix: the suffix without a trailing .nii or .nii.gz; an empty result is
\* refused by the caller
isSuffix(s) == SubNii(s, <<>>)

\* the file path __main__ builds, lines 289-294 (201-207); "" and None are <<>>
BuildOut(fnT1, suffix, fnOut, dirOut) ==
    LET out == IF fnOut # <<>>
               THEN fnOut
               ELSE join(dirname(fnT1), SubNii(basename(fnT1), <<>>) \o suffix \o NiiGz)
    IN  IF dirOut # <<>> THEN join(dirOut, basename(out)) ELSE out

\* variant: the overwrite flag is read the wrong way round
Collides_inverted(f, fnOut, overwrite) == exists(f, fnOut) /\ overwrite

\* the test of lines 297-298 (210-211)
Collides(f, fnOut, overwrite) == exists(f, fnOut) /\ ~overwrite

\* variant: the reoriented branch is tested before the resliced one
InverseBranch_reorientFirst(driver, reorient_flag, reslice_flag) ==
    IF reorient_flag THEN "ro_qform"
    ELSE IF driver = "mdgru" /\ reslice_flag THEN "rs_qform"
    ELSE "pt_qform"

\* which inverse mapping follows the predictor: lines 196, 229, 236 (142, 149)
InverseBranch(driver, reorient_flag, reslice_flag) ==
    IF driver = "mdgru" /\ reslice_flag THEN "rs_qform"
    ELSE IF reorient_flag THEN "ro_qform"
    ELSE "pt_qform"

\* variant: the exit status of the subprocess is not looked at
AfterPredictor_unchecked(returncode, next) == next

\* what follows the subprocess: lines 115-120 (70-75) raise on a non-zero status
AfterPredictor(returncode, next) ==
    IF returncode # 0 THEN "failed" ELSE next


----------------------------------------------------------------------------
(* The inputs of a run: command lines, input volumes, the file system *)

DataDir == << <<"data">> >>

OutDir == << <<"out">> >>

ImgName == <<"img">> \o NiiGz

DefaultSuffix == <<"_brainstem">>

RandStrs == {"r1", "r2"}

Drivers == {"mdgru", "nnunet"}

\* -o: absent, a compressed NIfTI name, a name with another extension
FnOutArgs == {<<>>, join(DataDir, <<"seg">> \o NiiGz), join(DataDir, <<"seg", ".nii">>)}

\* -d: absent or a folder
DirOutArgs == {<<>>, OutDir}

\* the folders a run with -o data/seg.nii.gz that did not clean up has left
StaleDirs == {join(DataDir, <<"seg", "_temp">>), join(DataDir, <<"seg", "_temp-", "r1">>)}

\* the paths a label map of an earlier run can be at
OldOutputs ==
    {join(d, n) : d \in {DataDir, OutDir},
                  n \in {<<"seg">> \o NiiGz, <<"img">> \o DefaultSuffix \o NiiGz}}

OldFile == [kind |-> "old"]

\* header variants of an input: both transforms coded and equal, only the
\* qform coded, only the sform coded (the qform fields then hold the identity)
InputImage(o, hdr, zooms) ==
    IF hdr = "both" THEN Image(o, CodeScanner, o, CodeScanner, zooms, InSize, T1Data(0))
    ELSE IF hdr = "qonly" THEN Image(o, CodeScanner, RAS, CodeUnknown, zooms, InSize, T1Data(0))
    ELSE Image(RAS, CodeUnknown, o, CodeScanner, zooms, InSize, T1Data(0))

PSL == Orient(<<2, 3, 1>>, <<-1, 1, -1>>)

Iso(z) == <<z, z, z>>

\* voxel sizes around the two ends of the accepted band
ZoomVals == {794, 795, 1205, 1206}

\* a few volumes, used with every command line
CoreImages ==
    {InputImage(o, h, Iso(z)) : o \in {RAS, PSL}, h \in {"both"}, z \in {1000, 500}}
    \cup {InputImage(PSL, h, Iso(1000)) : h \in {"qonly", "sonly"}}

\* every orientation and every voxel size vector, used with a plain command line
AllImages ==
    {InputImage(o, "both", Iso(1000)) : o \in Orients}
    \cup {InputImage(RAS, "both", z) : z \in [1..3 -> ZoomVals]}

NoImage == [kind |-> "none"]

NoArgs ==
    [driver |-> "none", fnT1 |-> <<>>, suffix |-> <<>>, fnOut |-> <<>>,
     dirOut |-> <<>>, overwrite |-> FALSE]

NoLocals ==
    [fnT1 |-> <<>>, suffix |-> <<>>, fnOut |-> <<>>, brainstem_mask |-> <<>>,
     dirTemp |-> <<>>, t1_in |-> <<>>, t1 |-> <<>>, nii |-> NoImage, axcodes |-> <<>>,
     zooms |-> <<>>, reorient_flag |-> FALSE, reslice_flag |-> FALSE,
     labelmap |-> <<>>, probdist |-> <<>>, probdistT |-> <<>>, iL |-> 0,
     arrL |-> <<>>, returncode |-> 0, err |-> "none"]

\* a file system: the two folders, the input volume, label maps of earlier
\* runs (old), left-over temporary folders holding a volume (stale)
FileSystem(input, img, old, stale) ==
    [q \in {DataDir, OutDir, input}
           \cup (IF old THEN OldOutputs ELSE {})
           \cup (IF stale THEN StaleDirs \cup {join(d, ImgName) : d \in StaleDirs} ELSE {}) |->
        IF q = input THEN img
        ELSE IF q \in {DataDir, OutDir} \cup StaleDirs THEN DirEntry
        ELSE IF q \in OldOutputs THEN OldFile
        ELSE img]

\* the command lines tried with the core volumes: the input named in full,
\* without its extension, or inside a left-over temporary folder
CommandLines ==
    [driver : Drivers,
     fnT1 : {join(DataDir, ImgName), join(DataDir, <<"img">>)}
            \cup {join(d, ImgName) : d \in StaleDirs},
     suffix : {DefaultSuffix},
     fnOut : FnOutArgs,
     dirOut : DirOutArgs,
     overwrite : BOOLEAN]

\* command lines whose -s value carries an extension, or nothing else
SuffixCommandLines ==
    [driver : Drivers, fnT1 : {join(DataDir, ImgName)},
     suffix : {<<"_seg">> \o NiiGz, <<".nii">>},
     fnOut : {<<>>}, dirOut : {<<>>}, overwrite : {FALSE}]

PlainCommandLines ==
    [driver : Drivers, fnT1 : {join(DataDir, ImgName)}, suffix : {DefaultSuffix},
     fnOut : {<<>>}, dirOut : {<<>>}, overwrite : {FALSE}]

\* the pieces file names are made of: a stem, the modality index, the two
\* parts of the extension
NameToks == {"img", "_0000", ".nii", ".gz"}

\* the longest part of an input file name in front of its extension, in pieces
MaxStem == 2

\* the file names isNIfTI lets through: anything followed by .nii.gz
InputNames ==
    {stem \o NiiGz : stem \in UNION {[1..n -> NameToks] : n \in 0..MaxStem}}

\* plain command lines on inputs of every such name
NameCommandLines ==
    [driver : Drivers, fnT1 : {join(DataDir, n) : n \in InputNames},
     suffix : {DefaultSuffix}, fnOut : {<<>>}, dirOut : {<<>>}, overwrite : {FALSE}]

\* the volumes used with them: one the drivers pass through, one they reorient
NameImages == {InputImage(o, "both", Iso(1000)) : o \in {RAS, PSL}}

\* the file the positional argument designates, when there is one
InputOf(a) == IF MatchesNii(basename(a.fnT1)) THEN a.fnT1
              ELSE join(dirname(a.fnT1), basename(a.fnT1) \o NiiGz)

InitRun(a, img, old, stale) ==
    /\ pc = [p \in Procs |-> IF p = 1 THEN "start" ELSE "off"]
    /\ args = [p \in Procs |-> IF p = 1 THEN a ELSE NoArgs]
    /\ loc = [p \in Procs |-> NoLocals]
    /\ fs = FileSystem(InputOf(a), img, old, stale)
    /\ fs0 = fs
    /\ log = [p \in Procs |-> <<>>]

Init ==
    \/ \E a \in CommandLines \cup SuffixCommandLines, img \in CoreImages,
          old \in BOOLEAN, stale \in BOOLEAN :
          /\ (dirname(a.fnT1) \in StaleDirs) => stale
          /\ InitRun(a, img, old, stale)
    \/ \E a \in PlainCommandLines, img \in AllImages :
          InitRun(a, img, FALSE, FALSE)
    \/ \E a \in NameCommandLines, img \in NameImages :
          InitRun(a, img, FALSE, FALSE)

----------------------------------------------------------------------------
(* Steps of a run.  Each step is one statement or library call of the     *)
(* driver; a call that cannot be carried out raises and ends the run.     *)

\* run p continues at `next` with the locals l
Goto(p, l, next) ==
    /\ pc' = [pc EXCEPT ![p] = next]
    /\ loc' = [loc EXCEPT ![p] = l]

\* an uncaught exception: the interpreter exits
Raise(p, l, e) == Goto(p, [l EXCEPT !.err = e], "failed")

Logged(p, step) == log' = [log EXCEPT ![p] = Append(log[p], step)]

\* argparse applies isNIfTI to the positional argument and isSuffix to -s
ParseArgs(p) ==
    /\ pc[p] = "start"
    /\ LET s == args[p].fnT1
           sgz == join(dirname(s), basename(s) \o NiiGz)
           l == [loc[p] EXCEPT !.suffix = isSuffix(args[p].suffix)]
       IN  IF Len(l.suffix) = 0
           THEN Raise(p, loc[p], "argparse")
           ELSE IF IsFile(fs, s) /\ EndsWith(basename(s), NiiGz)
           THEN Goto(p, [l EXCEPT !.fnT1 = s], "build")
           ELSE IF IsFile(fs, sgz)
           THEN Goto(p, [l EXCEPT !.fnT1 = sgz], "build")
           ELSE Raise(p, loc[p], "argparse")
    /\ UNCHANGED <<args, fs, fs0, log>>

\* __main__: build output filename
BuildOutput(p) ==
    /\ pc[p] = "build"
    /\ LET a == args[p]
       IN  IF a.fnOut # <<>> /\ ~EndsWith(basename(a.fnOut), NiiGz)
           THEN Raise(p, loc[p], "assert")
           ELSE Goto(p, [loc[p] EXCEPT
                            !.fnOut = BuildOut(loc[p].fnT1, loc[p].suffix, a.fnOut, a.dirOut)],
                     "check")
    /\ UNCHANGED <<args, fs, fs0, log>>

\* __main__: check whether output exists already, then call the pipeline
CheckCollision(p) ==
    /\ pc[p] = "check"
    /\ IF Collides(fs, loc[p].fnOut, args[p].overwrite)
       THEN Raise(p, loc[p], "collision")
       ELSE Goto(p, [loc[p] EXCEPT !.t1 = loc[p].fnT1,
                                   !.brainstem_mask = loc[p].fnOut], "tempdir")
    /\ UNCHANGED <<args, fs, fs0, log>>

\* pipeline: derive dirTemp and remove a folder of that name
PrepareTemp(p) ==
    /\ pc[p] = "tempdir"
    /\ \E strRand \in RandStrs :
          LET d == DirTempOf(args[p].driver, loc[p].brainstem_mask, strRand)
              l == [loc[p] EXCEPT !.dirTemp = d]
          IN  IF ~exists(fs, d) THEN Goto(p, l, "mkdir") /\ fs' = fs
              ELSE IF IsDir(fs, d) THEN Goto(p, l, "mkdir") /\ fs' = rmtree(fs, d)
              ELSE Raise(p, l, "io") /\ fs' = fs
    /\ UNCHANGED <<args, fs0, log>>

\* pipeline: Path(dirTemp).mkdir(parents=True)
MakeTemp(p) ==
    /\ pc[p] = "mkdir"
    /\ LET d == loc[p].dirTemp
       IN  IF \E n \in 1..Len(d) : IsFile(fs, SubSeq(d, 1, n)) \/ exists(fs, d)
           THEN Raise(p, loc[p], "io") /\ fs' = fs /\ log' = log
           ELSE Goto(p, loc[p], "copy") /\ fs' = mkdir(fs, d) /\ Logged(p, "mkdir")
    /\ UNCHANGED <<args, fs0>>

\* pipeline: copy the input into the temporary folder
CopyInput(p) ==
    /\ pc[p] = "copy"
    /\ LET t1_in == loc[p].t1
           t1 == WorkCopy(args[p].driver, loc[p].dirTemp, t1_in)
           l == [loc[p] EXCEPT !.t1_in = t1_in, !.t1 = t1]
       IN  IF IsFile(fs, t1_in) /\ CanWrite(fs, t1) /\ t1 # t1_in
           THEN Goto(p, l, "qform") /\ fs' = Put(fs, t1, fs[t1_in])
           ELSE Raise(p, l, "io") /\ fs' = fs
    /\ UNCHANGED <<args, fs0, log>>

\* variant: the header of the original input is normalized
HeaderTarget_input(l) == l.t1_in

\* the file whose header is normalized first, line 153 (111)
HeaderTarget(l) == l.t1

\* pipeline: qfrom_2_sform on the workspace copy
NormalizeHeader(p) ==
    /\ pc[p] = "qform"
    /\ LET t == HeaderTarget(loc[p])
       IN  IF IsImage(fs, t) /\ CanWrite(fs, t)
           THEN Goto(p, loc[p], "orient") /\ fs' = Put(fs, t, qfrom_2_sform(fs[t]))
           ELSE Raise(p, loc[p], "io") /\ fs' = fs
    /\ UNCHANGED <<args, fs0, log>>

\* pipeline: load the copy, check and correct orientation
CheckOrientation(p) ==
    /\ pc[p] = "orient"
    /\ LET t1 == loc[p].t1
           next == IF args[p].driver = "mdgru" THEN "spacing" ELSE "predict"
       IN  IF ~(IsImage(fs, t1) /\ CanWrite(fs, t1))
           THEN Raise(p, loc[p], "io") /\ fs' = fs
           ELSE LET nii == fs[t1]
                    axcodes == aff2axcodes(affine(nii))
                    l == [loc[p] EXCEPT !.nii = nii, !.axcodes = axcodes,
                                        !.zooms = nii.zooms]
                IN  IF ~OrientationAccepted(axcodes)
                    THEN /\ Goto(p, [l EXCEPT !.reorient_flag = TRUE], next)
                         /\ fs' = Put(fs, t1, Reoriented(nii))
                    ELSE /\ Goto(p, [l EXCEPT !.reorient_flag = FALSE], next)
                         /\ fs' = fs
    /\ UNCHANGED <<args, fs0, log>>

\* pipeline_mdgru: check and correct resolution
CheckSpacing(p) ==
    /\ pc[p] = "spacing"
    /\ LET t1 == loc[p].t1
       IN  IF OutOfRange(loc[p].zooms)
           THEN IF IsImage(fs, t1) /\ CanWrite(fs, t1) /\ fs[t1].data.type = "t1"
                THEN /\ Goto(p, [loc[p] EXCEPT !.reslice_flag = TRUE], "predict")
                     /\ fs' = Put(fs, t1, change_spacing(fs[t1]))
                ELSE Raise(p, loc[p], "io") /\ fs' = fs
           ELSE /\ Goto(p, [loc[p] EXCEPT !.reslice_flag = FALSE], "predict")
                /\ fs' = fs
    /\ UNCHANGED <<args, fs0, log>>


\* what the external predictors leave in the folder of t1 on success: a label
\* map on the grid of t1 and, for MD-GRU, the four-channel probability volume
\* (MD-GRU writes no sform, nnU-Net writes through SimpleITK); the predicted
\* volumes tried are the four that hold one class throughout
PredictedLabels == {[v \in 1..NVox |-> c] : c \in 0..3}

OneHot(lab) == [c \in 1..4 |-> [v \in 1..NVox |-> IF lab[v] = c - 1 THEN 100 ELSE 0]]

MdgruOutput(t1img, data) ==
    Image(affine(t1img), CodeScanner, RAS, CodeUnknown, t1img.zooms, t1img.size, data)

PredictorFiles(driver, f, t1, lab) ==
    IF driver = "mdgru"
    THEN Put(Put(f, LabelmapOf(driver, t1), MdgruOutput(f[t1], LabelData(lab))),
             ProbdistOf(t1), MdgruOutput(f[t1], ProbData(OneHot(lab))))
    ELSE Put(f, LabelmapOf(driver, t1), ItkImage(Grid(f[t1]), LabelData(lab)))

\* mdgru_prediction / nnunet_prediction: one subprocess.run, awaited
Predict(p) ==
    /\ pc[p] = "predict"
    /\ LET d == args[p].driver
           t1 == loc[p].t1
           l == [loc[p] EXCEPT !.labelmap = LabelmapOf(d, t1),
                               !.probdist = IF d = "mdgru" THEN ProbdistOf(t1) ELSE <<>>]
           next == InverseBranch(d, l.reorient_flag, l.reslice_flag)
       IN  \E returncode \in {0, 1} :
              /\ returncode = 0 => IsImage(fs, t1)
              /\ IF returncode = 0
                 THEN \E lab \in PredictedLabels : fs' = PredictorFiles(d, fs, t1, lab)
                 ELSE fs' = fs
              /\ Goto(p, [l EXCEPT !.returncode = returncode,
                                   !.err = IF AfterPredictor(returncode, next) = "failed"
                                           THEN "predictor" ELSE l.err],
                      AfterPredictor(returncode, next))
    /\ Logged(p, "predict")
    /\ UNCHANGED <<args, fs0>>

\* a header normalization of the inverse mapping, lines 204, 231, 240 (144, 153)
InverseQform(p, at, path, next) ==
    /\ pc[p] = at
    /\ IF IsImage(fs, path) /\ CanWrite(fs, path)
       THEN Goto(p, loc[p], next) /\ fs' = Put(fs, path, qfrom_2_sform(fs[path]))
       ELSE Raise(p, loc[p], "io") /\ fs' = fs
    /\ Logged(p, at)
    /\ UNCHANGED <<args, fs0>>

\* resliced branch: reinsert the sform of the probability volume
RsQform(p) ==
    /\ args[p].driver = "mdgru"
    /\ InverseQform(p, "rs_qform", loc[p].probdist, "rs_extract")

\* resliced branch, loop head and lines 208-211: save channel iL on its own
RsExtract(p) ==
    /\ pc[p] = "rs_extract"
    /\ LET iL == loc[p].iL + 1
           probdist == loc[p].probdist
           probdistT == ProbdistT(probdist, iL)
           l == [loc[p] EXCEPT !.iL = iL, !.probdistT = probdistT]
       IN  IF /\ IsImage(fs, probdist)
              /\ fs[probdist].data.type = "prob"
              /\ CanWrite(fs, probdistT)
           THEN /\ Goto(p, l, "rs_resample")
                /\ fs' = Put(fs, probdistT,
                             [fs[probdist] EXCEPT
                                 !.data = ChannelData(fs[probdist].data.ch[iL + 1])])
           ELSE Raise(p, l, "io") /\ fs' = fs
    /\ Logged(p, "rs_extract")
    /\ UNCHANGED <<args, fs0>>

\* resliced branch, line 214: B-spline resampling onto the grid of the input
RsResample(p) ==
    /\ pc[p] = "rs_resample"
    /\ LET probdistT == loc[p].probdistT
           reference == loc[p].t1_in
       IN  IF IsImage(fs, probdistT) /\ IsImage(fs, reference) /\ CanWrite(fs, probdistT)
           THEN /\ Goto(p, loc[p], "rs_threshold")
                /\ \E vals \in ResampledChannels :
                      fs' = Put(fs, probdistT,
                                ItkImage(Grid(fs[reference]), ChannelData(vals)))
           ELSE Raise(p, loc[p], "io") /\ fs' = fs
    /\ Logged(p, "rs_resample")
    /\ UNCHANGED <<args, fs0>>

\* resliced branch, lines 215-220: threshold the resampled channel
RsThreshold(p) ==
    /\ pc[p] = "rs_threshold"
    /\ LET probdistT == loc[p].probdistT
       IN  IF IsImage(fs, probdistT) /\ fs[probdistT].data.type = "channel"
           THEN LET nii == fs[probdistT]
                    arrL == ThresholdStep(loc[p].arrL, nii.data.vals, loc[p].iL)
                IN  Goto(p, [loc[p] EXCEPT !.nii = nii, !.arrL = arrL],
                         IF loc[p].iL < 3 THEN "rs_extract" ELSE "rs_save")
           ELSE Raise(p, loc[p], "io")
    /\ Logged(p, "rs_threshold")
    /\ UNCHANGED <<args, fs, fs0>>

\* resliced branch, lines 224-227: save the label map to the output path
RsSave(p) ==
    /\ pc[p] = "rs_save"
    /\ LET out == loc[p].brainstem_mask
       IN  IF CanWrite(fs, out)
           THEN /\ Goto(p, loc[p], "cleanup")
                /\ fs' = Put(fs, out, [loc[p].nii EXCEPT !.data = LabelData(loc[p].arrL)])
           ELSE Raise(p, loc[p], "io") /\ fs' = fs
    /\ Logged(p, "rs_save")
    /\ UNCHANGED <<args, fs0>>

\* reoriented branch, line 231 (144)
RoQform(p) ==
    /\ loc[p].reorient_flag
    /\ InverseQform(p, "ro_qform", loc[p].labelmap, "ro_resample")

\* reoriented branch, line 232 (145): nearest-neighbour resampling of the
\* label map onto the grid of the input
RoResample(p) ==
    /\ pc[p] = "ro_resample"
    /\ LET labelmap == loc[p].labelmap
           reference == loc[p].t1_in
       IN  IF /\ IsImage(fs, labelmap) /\ IsImage(fs, reference)
              /\ fs[labelmap].data.type = "labels"
           THEN /\ Goto(p, loc[p], "ro_copy")
                /\ \E vals \in ResampledLabels(fs[labelmap].data.vals) :
                      fs' = Put(fs, labelmap,
                                ItkImage(Grid(fs[reference]), LabelData(vals)))
           ELSE Raise(p, loc[p], "io") /\ fs' = fs
    /\ Logged(p, "ro_resample")
    /\ UNCHANGED <<args, fs0>>

\* copy2(labelmap, brainstem_mask), lines 234 and 241 (147 and 154)
CopyOut(p, at) ==
    /\ pc[p] = at
    /\ LET labelmap == loc[p].labelmap
           out == loc[p].brainstem_mask
       IN  IF IsFile(fs, labelmap) /\ CanWrite(fs, out) /\ labelmap # out
           THEN Goto(p, loc[p], "cleanup") /\ fs' = Put(fs, out, fs[labelmap])
           ELSE Raise(p, loc[p], "io") /\ fs' = fs
    /\ Logged(p, at)
    /\ UNCHANGED <<args, fs0>>

RoCopy(p) ==
    /\ loc[p].reorient_flag
    /\ CopyOut(p, "ro_copy")

\* pass-through branch, line 240 (153)
PtQform(p) ==
    /\ ~loc[p].reorient_flag
    /\ InverseQform(p, "pt_qform", loc[p].labelmap, "pt_copy")

PtCopy(p) ==
    /\ ~loc[p].reorient_flag
    /\ CopyOut(p, "pt_copy")

\* pipeline: clean up, line 245 (158)
Cleanup(p) ==
    /\ pc[p] = "cleanup"
    /\ IF IsDir(fs, loc[p].dirTemp)
       THEN Goto(p, loc[p], "done") /\ fs' = rmtree(fs, loc[p].dirTemp)
       ELSE Raise(p, loc[p], "io") /\ fs' = fs
    /\ UNCHANGED <<args, fs0, log>>


\* the file a library call of the step at pc[p] is writing when it fails; a
\* failed write leaves the file truncated
WriteTargets(p) ==
    LET l == loc[p]
        at == pc[p]
    IN  IF at = "copy" THEN {WorkCopy(args[p].driver, l.dirTemp, l.t1)}
        ELSE IF at = "qform" THEN {l.t1}
        ELSE IF at = "orient"
             THEN IF IsImage(fs, l.t1) /\ ~OrientationAccepted(aff2axcodes(affine(fs[l.t1])))
                  THEN {l.t1} ELSE {}
        ELSE IF at = "spacing" THEN {l.t1}
        ELSE IF at = "rs_qform" THEN {l.probdist}
        ELSE IF at = "rs_extract" THEN {ProbdistT(l.probdist, l.iL + 1)}
        ELSE IF at = "rs_resample" THEN {l.probdistT}
        ELSE IF at \in {"ro_qform", "ro_resample", "pt_qform"} THEN {l.labelmap}
        ELSE IF at \in {"rs_save", "ro_copy", "pt_copy"} THEN {l.brainstem_mask}
        ELSE {}

\* the steps whose library calls touch the file system
CanFail(p) ==
    \/ pc[p] \in {"mkdir", "copy", "qform", "orient", "cleanup",
                  "rs_qform", "rs_extract", "rs_resample", "rs_threshold", "rs_save",
                  "ro_qform", "ro_resample", "ro_copy", "pt_qform", "pt_copy"}
    \/ pc[p] = "tempdir" /\ \E r \in RandStrs :
          exists(fs, DirTempOf(args[p].driver, loc[p].brainstem_mask, r))
    \/ pc[p] = "spacing" /\ OutOfRange(loc[p].zooms)

\* an error of the imaging or file library (disk full, no permission, ...):
\* nothing catches it, the run ends where it is
IOError(p) ==
    /\ CanFail(p)
    /\ \/ fs' = fs
       \/ \E t \in WriteTargets(p) : CanWrite(fs, t) /\ fs' = Put(fs, t, Partial)
    /\ Raise(p, loc[p], "io")
    /\ UNCHANGED <<args, fs0, log>>

Step(p) ==
    \/ ParseArgs(p)
    \/ BuildOutput(p)
    \/ CheckCollision(p)
    \/ PrepareTemp(p)
    \/ MakeTemp(p)
    \/ CopyInput(p)
    \/ NormalizeHeader(p)
    \/ CheckOrientation(p)
    \/ CheckSpacing(p)
    \/ Predict(p)
    \/ RsQform(p)
    \/ RsExtract(p)
    \/ RsResample(p)
    \/ RsThreshold(p)
    \/ RsSave(p)
    \/ RoQform(p)
    \/ RoResample(p)
    \/ RoCopy(p)
    \/ PtQform(p)
    \/ PtCopy(p)
    \/ Cleanup(p)
    \/ IOError(p)

Next == \E p \in Procs : Step(p)

\* one run of either driver
Spec == Init /\ [][Next]_vars

\* two MD-GRU runs started with the same command line on the same file
\* system; the volumes are within the accepted resolution, so only the
\* reoriented and the pass-through inverse mappings occur
ConcImages == {InputImage(o, "both", Iso(1000)) : o \in {RAS, PSL}}

InitConc ==
    \E img \in ConcImages, x \in BOOLEAN :
        LET a == [driver |-> "mdgru", fnT1 |-> join(DataDir, ImgName),
                  suffix |-> DefaultSuffix, fnOut |-> <<>>, dirOut |-> <<>>,
                  overwrite |-> x]
        IN  /\ pc = [p \in Procs |-> "start"]
            /\ args = [p \in Procs |-> a]
            /\ loc = [p \in Procs |-> NoLocals]
            /\ fs = FileSystem(InputOf(a), img, FALSE, FALSE)
            /\ fs0 = fs
            /\ log = [p \in Procs |-> <<>>]

StepConc(p) ==
    \/ ParseArgs(p)
    \/ BuildOutput(p)
    \/ CheckCollision(p)
    \/ PrepareTemp(p)
    \/ MakeTemp(p)
    \/ CopyInput(p)
    \/ NormalizeHeader(p)
    \/ CheckOrientation(p)
    \/ CheckSpacing(p)
    \/ Predict(p)
    \/ RoQform(p)
    \/ RoResample(p)
    \/ RoCopy(p)
    \/ PtQform(p)
    \/ PtCopy(p)
    \/ Cleanup(p)

NextConc == \E p \in Procs : StepConc(p)

SpecConc == InitConc /\ [][NextConc]_vars


----------------------------------------------------------------------------
(* Properties *)

Active(p) == args[p].driver \in Drivers

\* the inverse-mapping steps run p has begun, in order
InverseSteps(p) == SelectSeq(log[p], LAMBDA e : e \notin {"mkdir", "predict"})

Count(seq, e) == Cardinality({i \in 1..Len(seq) : seq[i] = e})

RsLoop == <<"rs_extract", "rs_resample", "rs_threshold">>

\* the steps of the three inverse mappings
ResliceSteps == <<"rs_qform">> \o RsLoop \o RsLoop \o RsLoop \o <<"rs_save">>

ReorientSteps == <<"ro_qform", "ro_resample", "ro_copy">>

CopySteps == <<"pt_qform", "pt_copy">>

\* a path holds the same thing in two file systems
SameAt(f, g, path) ==
    /\ exists(f, path) = exists(g, path)
    /\ exists(f, path) => f[path] = g[path]

\* C1: in the MD-GRU driver exactly one inverse mapping runs after a successful
\* predictor call, selected by the two flags: resliced (whatever reoriented is)
\* gives the per-class probability resampling and thresholding, reoriented
\* alone the nearest-neighbour resampling of the label map onto the grid of
\* the original input, neither the copy of the header-normalized label map.
C1_OneInverseBranch ==
    \A p \in Procs : args[p].driver = "mdgru" =>
        LET l == loc[p]
            expected == IF l.reslice_flag THEN ResliceSteps
                        ELSE IF l.reorient_flag THEN ReorientSteps
                        ELSE CopySteps
            out == l.brainstem_mask
        IN  /\ IsPrefix(InverseSteps(p), expected)
            /\ pc[p] \in {"cleanup", "done"} => InverseSteps(p) = expected
            /\ pc[p] = "cleanup" =>
                  /\ IsImage(fs, out)
                  /\ fs[out].data.type = "labels"
                  /\ l.reslice_flag =>
                        /\ fs[out].data.vals = l.arrL
                        /\ Grid(fs[out]) = Grid(fs0[l.t1_in])
                  /\ (~l.reslice_flag /\ l.reorient_flag) =>
                        /\ fs[out] = fs[l.labelmap]
                        /\ Grid(fs[out]) = Grid(fs0[l.t1_in])
                  /\ (~l.reslice_flag /\ ~l.reorient_flag) =>
                        /\ fs[out] = fs[l.labelmap]
                        /\ Grid(fs[out]) = Grid(fs[l.t1])
                        /\ fs[out].scode = CodeScanner

\* C1 witness: a finished MD-GRU run that had both reoriented and resliced
C1_Witness ==
    \E p \in Procs :
        /\ args[p].driver = "mdgru" /\ pc[p] = "done"
        /\ loc[p].reslice_flag /\ loc[p].reorient_flag
        /\ InverseSteps(p) = ResliceSteps

\* C2: a run that ends with an error leaves the output path as it was before
\* the run started (same existence, same content).
C2_FailedRunLeavesOutput ==
    \A p \in Procs :
        (pc[p] = "failed" /\ loc[p].fnOut # <<>>) => SameAt(fs, fs0, loc[p].fnOut)

\* C3: once a run has created its temporary folder, the folder is gone when
\* the run has ended, with or without an error.
C3_TempRemovedAtEnd ==
    \A p \in Procs :
        (pc[p] \in {"done", "failed"} /\ Count(log[p], "mkdir") > 0)
            => ~exists(fs, loc[p].dirTemp)

\* C4: when the output path exists and -x is not given, the run raises before
\* a temporary folder is made, before any file is written and before the
\* predictor is called; with -x the existing output never stops the run.
C4_CollisionRaisesFirst ==
    \A p \in Procs :
        LET out == loc[p].fnOut
        IN  /\ (Active(p) /\ out # <<>> /\ exists(fs0, out) /\ ~args[p].overwrite) =>
                  /\ pc[p] \in {"check", "failed"}
                  /\ pc[p] = "failed" => loc[p].err = "collision"
                  /\ fs = fs0
                  /\ log[p] = <<>>
                  /\ loc[p].dirTemp = <<>>
            /\ (pc[p] = "failed" /\ loc[p].err = "collision") =>
                  exists(fs0, out) /\ ~args[p].overwrite

\* C4 witness: a run stopped by the collision error
C4_Witness ==
    \E p \in Procs :
        /\ pc[p] = "failed" /\ loc[p].err = "collision"
        /\ exists(fs0, loc[p].fnOut) /\ ~args[p].overwrite

\* C5: the predictor is called at most once in a run and exactly once, with
\* exit status 0 and its files written, before any inverse-mapping step; after
\* a non-zero exit status the run has failed, no inverse-mapping step has begun
\* and the output path is as it was.
C5_PredictorOnceThenInverse ==
    \A p \in Procs :
        /\ Count(log[p], "predict") <= 1
        /\ (InverseSteps(p) # <<>> \/ pc[p] \in {"cleanup", "done"}) =>
              /\ Count(log[p], "predict") = 1
              /\ log[p][2] = "predict"
              /\ loc[p].returncode = 0
        /\ (Count(log[p], "predict") = 1 /\ loc[p].returncode # 0) =>
              /\ pc[p] = "failed"
              /\ loc[p].err = "predictor"
              /\ InverseSteps(p) = <<>>
              /\ SameAt(fs, fs0, loc[p].fnOut)
        /\ (pc[p] \in {"rs_qform", "ro_qform", "pt_qform"}) =>
              /\ IsImage(fs, loc[p].labelmap)
              /\ args[p].driver = "mdgru" => IsImage(fs, loc[p].probdist)

\* C5 witness: a run whose predictor exited with a non-zero status
C5_Witness ==
    \E p \in Procs :
        /\ pc[p] = "failed" /\ loc[p].err = "predictor"
        /\ log[p] = <<"mkdir", "predict">>


\* the largest element of a non-empty set of integers
MaxOf(S) == CHOOSE x \in S : \A y \in S : y <= x

\* the resampled value of class c at voxel v, read from the channel file the
\* resliced branch has left in the temporary folder
ChannelValue(p, c, v) == fs[ProbdistT(loc[p].probdist, c)].data.vals[v]

\* C6: in the resliced branch of pipeline_mdgru the label written for a voxel is
\* the highest class among 1, 2, 3 whose resampled probability is at least
\* 0.5, and 0 when no class reaches 0.5.
C6_HighestClassAtHalf ==
    \A p \in Procs :
        (args[p].driver = "mdgru" /\ loc[p].reslice_flag /\ pc[p] = "cleanup") =>
            \A v \in 1..NVox :
                fs[loc[p].brainstem_mask].data.vals[v] =
                    MaxOf({0} \cup {c \in 1..3 : ChannelValue(p, c, v) * 2 >= 100})

\* C6 witness: classes 1 and 2 reach 0.5 exactly, class 3 stays below, and
\* the label written is 2
C6_Witness ==
    \E p \in Procs :
        /\ args[p].driver = "mdgru" /\ loc[p].reslice_flag /\ pc[p] = "cleanup"
        /\ ChannelValue(p, 1, 1) = 50
        /\ ChannelValue(p, 2, 1) = 50
        /\ ChannelValue(p, 3, 1) = 49
        /\ fs[loc[p].brainstem_mask].data.vals[1] = 2

\* the state right after the orientation check of run p
OrientationChecked(p) ==
    \/ args[p].driver = "mdgru" /\ pc[p] = "spacing"
    \/ args[p].driver = "nnunet" /\ pc[p] = "predict"

\* C7: after the orientation check, the reorientation flag is false and the
\* workspace image is the one that was loaded exactly when the axis codes of
\* the loaded image are (R,A,S) or (L,A,S); otherwise the flag is true and the
\* workspace image is a different one whose axis codes are (R,A,S).
C7_CanonicalOrientation ==
    \A p \in Procs : OrientationChecked(p) =>
        LET nii == loc[p].nii
            codes == aff2axcodes(affine(nii))
            accepted == codes \in {<<"R", "A", "S">>, <<"L", "A", "S">>}
            now == fs[loc[p].t1]
        IN  /\ loc[p].axcodes = codes
            /\ loc[p].reorient_flag = ~accepted
            /\ accepted => now = nii
            /\ ~accepted =>
                  /\ now # nii
                  /\ aff2axcodes(affine(now)) = <<"R", "A", "S">>
                  /\ aff2axcodes(now.qf) = <<"R", "A", "S">>
                  /\ now.data = nii.data

\* C7 witness: a (P,S,L) image has been reoriented
C7_Witness ==
    \E p \in Procs :
        /\ OrientationChecked(p)
        /\ loc[p].axcodes = <<"P", "S", "L">>
        /\ loc[p].reorient_flag
        /\ aff2axcodes(affine(fs[loc[p].t1])) = <<"R", "A", "S">>

UsingWorkspace(p) ==
    pc[p] \in {"qform", "orient", "spacing", "predict", "ro_qform", "ro_resample",
               "ro_copy", "pt_qform", "pt_copy", "cleanup"}

\* C9: two MD-GRU runs with the same output path derive the same temporary
\* folder, so one run can remove or overwrite workspace files the other run
\* is still using (the witness is such an interleaving).
C9_SameTempName ==
    \A p, q \in Procs :
        (/\ args[p].driver = "mdgru" /\ args[q].driver = "mdgru"
         /\ loc[p].dirTemp # <<>> /\ loc[q].dirTemp # <<>>
         /\ loc[p].brainstem_mask = loc[q].brainstem_mask) =>
            loc[p].dirTemp = loc[q].dirTemp

\* C9 witness: run q has finished and its clean-up has removed the folder in
\* which run p, not yet at its own clean-up, still expects its workspace copy
C9_Witness ==
    \E p, q \in Procs :
        /\ p # q
        /\ args[p].driver = "mdgru" /\ args[q].driver = "mdgru"
        /\ loc[p].dirTemp = loc[q].dirTemp
        /\ pc[q] = "done"
        /\ UsingWorkspace(p) /\ pc[p] # "cleanup"
        /\ ~exists(fs, loc[p].t1)
        /\ ~exists(fs, loc[p].dirTemp)

\* C10 as stated: when the output path differs from the input path, the file
\* at the input path is never written, replaced or deleted.
C10_InputUntouched ==
    \A p \in Procs :
        (Active(p) /\ loc[p].fnOut # <<>> /\ loc[p].fnOut # loc[p].fnT1) =>
            SameAt(fs, fs0, loc[p].fnT1)

\* C10 amended: when the input path differs from the output path and does not
\* lie inside the temporary folder the run derives from its output path, the
\* file at the input path is never written, replaced or deleted.
C10_InputUntouchedOutsideTemp ==
    \A p \in Procs :
        (/\ Active(p)
         /\ loc[p].fnOut # <<>>
         /\ loc[p].fnOut # loc[p].fnT1
         /\ ~IsPrefix(loc[p].dirTemp, loc[p].fnT1) \/ loc[p].dirTemp = <<>>) =>
            /\ SameAt(fs, fs0, loc[p].fnT1)
            /\ IsImage(fs, loc[p].fnT1)

\* C10 witness: a finished run that reoriented its workspace copy of an input
\* whose header the normalization changes
C10_Witness ==
    \E p \in Procs :
        /\ pc[p] = "done"
        /\ loc[p].reorient_flag
        /\ fs0[loc[p].fnT1].scode = CodeUnknown
        /\ fs[loc[p].fnT1] = fs0[loc[p].fnT1]

\* C11: in pipeline_nnunet, for an input file name ending in .nii.gz, the
\* workspace copy is the temporary folder joined with the input name with
\* _0000 put right in front of the extension; the label map expected from
\* the predictor is the temporary folder joined with the input name itself,
\* and is never the path of the workspace copy.
C11_ModalityRoundTrip ==
    \A p \in Procs :
        (/\ args[p].driver = "nnunet"
         /\ loc[p].t1_in # <<>>
         /\ EndsWith(basename(loc[p].t1_in), NiiGz)) =>
            LET name == basename(loc[p].t1_in)
                stem == SubSeq(name, 1, Len(name) - 2)
            IN  /\ loc[p].t1 = loc[p].dirTemp \o << stem \o <<"_0000", ".nii", ".gz">> >>
                /\ loc[p].labelmap # <<>> =>
                       /\ loc[p].labelmap = loc[p].dirTemp \o <<name>>
                       /\ loc[p].labelmap # loc[p].t1

\* C11 witness: a finished nnU-Net run on an input whose name already ends in
\* _0000.nii.gz; the label map was expected under the input's own name
C11_Witness ==
    \E p \in Procs :
        /\ args[p].driver = "nnunet" /\ pc[p] = "done"
        /\ basename(loc[p].t1_in) = <<"img", "_0000", ".nii", ".gz">>
        /\ basename(loc[p].t1) = <<"img", "_0000", "_0000", ".nii", ".gz">>
        /\ basename(loc[p].labelmap) = <<"img", "_0000", ".nii", ".gz">>
        /\ loc[p].returncode = 0

====
